---- MODULE Spec2Model ----
(***************************************************************************)
(* Lazor puzzle solver: the four drafts of the repository                  *)
(*   Lazors.py, lazors1.py  (solve_with_bruteforce, trace_laser)           *)
(*   lazors2.py             (solve_puzzle, trace_laser, Block)             *)
(*   lazors3.py             (solve_puzzle, Lazor.trace, Block,             *)
(*                           generate_full_grid)                           *)
(* Two specifications share the operators below:                           *)
(*   TraceSpec  one run of a tracer, one loop iteration per step           *)
(*   Spec       one run of a solver, one statement group per step; the     *)
(*              tracer is run to completion with the same step operators   *)
(* Positions and directions are pairs <<x, y>>; a grid is a sequence of    *)
(* rows, row r of the Python list being grid[r + 1].                       *)
(***************************************************************************)
EXTENDS Integers, Sequences, FiniteSets, TLC

\* Python's None as a block or tracer name, and as a grid reference
None == "None"
NoRef == 0

SeqToSet(s) == {s[i] : i \in 1..Len(s)}

\* x + dx, y + dy
Move(pos, dir) == <<pos[1] + dir[1], pos[2] + dir[2]>>

BlockLetters == {"A", "B", "C"}

(***************************************************************************)
(* Lazors.py / lazors1.py : get_block, calculate_interaction, trace_laser  *)
(***************************************************************************)
get_block(grid, point) ==
    LET x == point[1]
        y == point[2]
        row == y \div 2
        col == x \div 2
    IN  IF x < 0 \/ y < 0 THEN None
        ELSE IF x % 2 = 1 /\ y % 2 = 1 THEN None
        ELSE IF row >= Len(grid) \/ col >= Len(grid[1]) THEN None
        ELSE grid[row + 1][col + 1]

calculate_interaction(block_type, direction, collision_point) ==
    LET dx == direction[1]
        dy == direction[2]
        x == collision_point[1]
        y == collision_point[2]
    IN  IF block_type = "A"
        THEN IF x % 2 = 0 /\ y % 2 = 1 THEN << <<-dx, dy>> >>
             ELSE IF x % 2 = 1 /\ y % 2 = 0 THEN << <<dx, -dy>> >>
             ELSE <<>>
        ELSE IF block_type = "B" THEN <<>>
        ELSE IF block_type = "C"
        THEN IF x % 2 = 0 /\ y % 2 = 1 THEN << <<dx, dy>>, <<-dx, dy>> >>
             ELSE IF x % 2 = 1 /\ y % 2 = 0 THEN << <<dx, dy>>, <<dx, -dy>> >>
             ELSE << <<dx, dy>> >>
        ELSE << direction >>

(* The state of a running tracer: the locals of the function.  inner is    *)
(* TRUE while trace_laser of lazors1.py is inside its "while True" loop,   *)
(* pos and dir are then its x, y, dx, dy; brk is TRUE once the loop was    *)
(* left by "break" (lazors2.py).  steps is step_counter in lazors1.py.     *)
(* start keeps the arguments start_pos, start_dir (self.start and          *)
(* self.direction in lazors3.py); err is TRUE once an exception left the   *)
(* function.                                                               *)
TraceInit(start_pos, start_dir) ==
    [queue |-> << <<start_pos, start_dir>> >>, visited |-> {}, path |-> <<>>,
     steps |-> 0, inner |-> FALSE, pos |-> start_pos, dir |-> start_dir,
     brk |-> FALSE, start |-> <<start_pos, start_dir>>, err |-> FALSE]

\* the loop condition of trace_laser (lazors1.py), or being inside the inner loop
trace_laser1_active(t, max_reflections) ==
    t.inner \/ (t.queue # <<>> /\ Cardinality(t.visited) < max_reflections)

\* queue.append(((x + ndx, y + ndy), (ndx, ndy))) for each new direction
Extend1(queue, pos, new_dirs) ==
    queue \o [k \in 1..Len(new_dirs) |-> <<Move(pos, new_dirs[k]), new_dirs[k]>>]

\* trace_laser with a visited beam state left at the head of the queue
\* instead of being discarded
trace_laser1_step_keeps_visited(grid, t) ==
    IF ~t.inner
    THEN LET st == Head(t.queue) IN
         IF st \in t.visited
         THEN t
         ELSE [t EXCEPT !.queue = Tail(t.queue),
                        !.visited = t.visited \cup {st},
                        !.inner = TRUE, !.pos = st[1], !.dir = st[2]]
    ELSE LET x == t.pos[1]
             y == t.pos[2]
             block == get_block(grid, t.pos)
         IN  IF x < 0 \/ y < 0 \/ x >= Len(grid[1]) * 2 \/ y >= Len(grid) * 2
             THEN [t EXCEPT !.inner = FALSE]
             ELSE IF block \in BlockLetters
             THEN [t EXCEPT !.path = Append(t.path, <<t.pos, t.steps>>),
                            !.steps = t.steps + 1,
                            !.queue = Extend1(t.queue, t.pos,
                                        calculate_interaction(block, t.dir, t.pos)),
                            !.inner = FALSE]
             ELSE [t EXCEPT !.path = Append(t.path, <<t.pos, t.steps>>),
                            !.steps = t.steps + 1,
                            !.pos = Move(t.pos, t.dir)]

\* one iteration of the outer loop head, or one iteration of the inner loop
trace_laser1_step(grid, t) ==
    IF ~t.inner
    THEN LET st == Head(t.queue) IN
         IF st \in t.visited
         THEN [t EXCEPT !.queue = Tail(t.queue)]
         ELSE [t EXCEPT !.queue = Tail(t.queue),
                        !.visited = t.visited \cup {st},
                        !.inner = TRUE, !.pos = st[1], !.dir = st[2]]
    ELSE LET x == t.pos[1]
             y == t.pos[2]
             block == get_block(grid, t.pos)
         IN  IF x < 0 \/ y < 0 \/ x >= Len(grid[1]) * 2 \/ y >= Len(grid) * 2
             THEN [t EXCEPT !.inner = FALSE]
             ELSE IF block \in BlockLetters
             THEN [t EXCEPT !.path = Append(t.path, <<t.pos, t.steps>>),
                            !.steps = t.steps + 1,
                            !.queue = Extend1(t.queue, t.pos,
                                        calculate_interaction(block, t.dir, t.pos)),
                            !.inner = FALSE]
             ELSE [t EXCEPT !.path = Append(t.path, <<t.pos, t.steps>>),
                            !.steps = t.steps + 1,
                            !.pos = Move(t.pos, t.dir)]

(***************************************************************************)
(* lazors2.py / lazors3.py : Block.__init__, Block.calculate_interaction   *)
(***************************************************************************)
\* Block(block_type) is constructed; FALSE when __init__ raises ValueError
Block_init(block_type) == block_type \in {"A", "B", "C"}

\* the table with the surface taken from the parity of y
Block_calculate_interaction_by_y(type, direction, collision_point) ==
    LET dx == direction[1]
        dy == direction[2]
        y == collision_point[2]
    IN  IF type = "A"
        THEN IF y % 2 = 1 THEN << <<-dx, dy>> >> ELSE << <<dx, -dy>> >>
        ELSE IF type = "B" THEN <<>>
        ELSE IF type = "C"
        THEN IF y % 2 = 1 THEN << <<dx, dy>>, <<-dx, dy>> >>
             ELSE << <<dx, dy>>, <<dx, -dy>> >>
        ELSE << direction >>

Block_calculate_interaction(type, direction, collision_point) ==
    LET dx == direction[1]
        dy == direction[2]
        x == collision_point[1]
    IN  IF type = "A"
        THEN IF x % 2 = 0 THEN << <<-dx, dy>> >> ELSE << <<dx, -dy>> >>
        ELSE IF type = "B" THEN <<>>
        ELSE IF type = "C"
        THEN IF x % 2 = 0 THEN << <<dx, dy>>, <<-dx, dy>> >>
             ELSE << <<dx, dy>>, <<dx, -dy>> >>
        ELSE << direction >>

(***************************************************************************)
(* lazors2.py : trace_laser                                                *)
(***************************************************************************)
trace_laser2_active(t, max_steps) ==
    ~t.err /\ ~t.brk /\ t.queue # <<>> /\ t.steps < max_steps

\* 0 <= new_x < width*2 and 0 <= new_y < height*2
InBounds2(grid, p) ==
    0 <= p[1] /\ p[1] < Len(grid[1]) * 2 /\ 0 <= p[2] /\ p[2] < Len(grid) * 2

\* the states of new_dirs whose position is in bounds, in order
RECURSIVE Extend2(_, _, _, _)
Extend2(grid, queue, pos, new_dirs) ==
    IF new_dirs = <<>> THEN queue
    ELSE LET np == Move(pos, Head(new_dirs))
             q == IF InBounds2(grid, np) THEN Append(queue, <<np, Head(new_dirs)>>)
                  ELSE queue
         IN  Extend2(grid, q, pos, Tail(new_dirs))

trace_laser2_step(grid, t) ==
    LET st == Head(t.queue)
        pos == st[1]
        dir == st[2]
        row == pos[2] \div 2
        col == pos[1] \div 2
        block == IF 0 <= row /\ row < Len(grid) /\ 0 <= col /\ col < Len(grid[1])
                 THEN grid[row + 1][col + 1] ELSE None
        t1 == [t EXCEPT !.queue = Tail(t.queue),
                        !.visited = t.visited \cup {st},
                        !.path = Append(t.path, pos)]
    IN  IF st \in t.visited THEN [t EXCEPT !.queue = Tail(t.queue)]
        ELSE IF block = "B" THEN [t1 EXCEPT !.brk = TRUE]
        ELSE IF block \in {"A", "C"}
        THEN IF ~Block_init(block) THEN [t1 EXCEPT !.err = TRUE]
             ELSE [t1 EXCEPT !.queue = Extend2(grid, t1.queue, pos,
                                    Block_calculate_interaction(block, dir, pos)),
                             !.steps = t.steps + 1]
        ELSE [t1 EXCEPT !.queue = Extend2(grid, t1.queue, pos, <<dir>>),
                        !.steps = t.steps + 1]

(***************************************************************************)
(* lazors3.py : generate_full_grid, Lazor.trace                            *)
(***************************************************************************)
\* the expansion without the last border row and column: 2r x 2c
generate_full_grid_no_border(grid_origin) ==
    [i1 \in 1..(2 * Len(grid_origin)) |->
       [j1 \in 1..(2 * Len(grid_origin[1])) |->
          IF (i1 - 1) % 2 = 0 \/ (j1 - 1) % 2 = 0 THEN "x"
          ELSE grid_origin[((i1 - 2) \div 2) + 1][((j1 - 2) \div 2) + 1]]]

generate_full_grid(grid_origin) ==
    LET rows == Len(grid_origin)
        cols == Len(grid_origin[1])
    IN  [i1 \in 1..(2 * rows + 1) |->
           [j1 \in 1..(2 * cols + 1) |->
              LET i == i1 - 1
                  j == j1 - 1
              IN  IF i % 2 = 0 THEN "x"
                  ELSE IF j % 2 = 0 THEN "x"
                  ELSE grid_origin[((i - 1) \div 2) + 1][((j - 1) \div 2) + 1]]]

Lazor_trace_active(t, max_steps) ==
    ~t.err /\ t.queue # <<>> /\ t.steps < max_steps

\* the loop body with only the first resulting direction of a block queued
Lazor_trace_step_first_branch(grid, t) ==
    LET st == Head(t.queue)
        pos == st[1]
        dir == st[2]
        new == Move(pos, dir)
        t1 == [t EXCEPT !.queue = Tail(t.queue),
                        !.visited = t.visited \cup {st},
                        !.path = Append(t.path, pos),
                        !.steps = t.steps + 1]
    IN  IF st \in t.visited THEN [t EXCEPT !.queue = Tail(t.queue)]
        ELSE IF ~(0 <= new[1] /\ new[1] < Len(grid[1]) /\ 0 <= new[2] /\ new[2] < Len(grid))
        THEN t1
        ELSE LET cell == grid[new[2] + 1][new[1] + 1] IN
             IF cell \in BlockLetters
             THEN LET new_dirs == Block_calculate_interaction(cell, dir, new) IN
                  [t1 EXCEPT !.queue = t1.queue \o
                       [k \in 1..(IF new_dirs = <<>> THEN 0 ELSE 1) |-> <<new, new_dirs[k]>>]]
             ELSE [t1 EXCEPT !.queue = Append(t1.queue, <<new, dir>>)]

\* the loop body with the beam's own position handed to Block.interact
Lazor_trace_step_own_position(grid, t) ==
    LET st == Head(t.queue)
        pos == st[1]
        dir == st[2]
        new == Move(pos, dir)
        height == Len(grid)
        width == Len(grid[1])
        t1 == [t EXCEPT !.queue = Tail(t.queue),
                        !.visited = t.visited \cup {st},
                        !.path = Append(t.path, pos),
                        !.steps = t.steps + 1]
    IN  IF st \in t.visited THEN [t EXCEPT !.queue = Tail(t.queue)]
        ELSE IF ~(0 <= new[1] /\ new[1] < width /\ 0 <= new[2] /\ new[2] < height)
        THEN t1
        ELSE LET cell == grid[new[2] + 1][new[1] + 1] IN
             IF cell \in BlockLetters
             THEN IF ~Block_init(cell) THEN [t1 EXCEPT !.err = TRUE, !.steps = t.steps]
                  ELSE LET new_dirs == Block_calculate_interaction(cell, dir, pos) IN
                       [t1 EXCEPT !.queue = t1.queue \o
                            [k \in 1..Len(new_dirs) |-> <<new, new_dirs[k]>>]]
             ELSE [t1 EXCEPT !.queue = Append(t1.queue, <<new, dir>>)]

Lazor_trace_step(grid, t) ==
    LET st == Head(t.queue)
        pos == st[1]
        dir == st[2]
        new == Move(pos, dir)
        height == Len(grid)
        width == Len(grid[1])
        t1 == [t EXCEPT !.queue = Tail(t.queue),
                        !.visited = t.visited \cup {st},
                        !.path = Append(t.path, pos),
                        !.steps = t.steps + 1]
    IN  IF st \in t.visited THEN [t EXCEPT !.queue = Tail(t.queue)]
        ELSE IF ~(0 <= new[1] /\ new[1] < width /\ 0 <= new[2] /\ new[2] < height)
        THEN t1
        ELSE LET cell == grid[new[2] + 1][new[1] + 1] IN
             IF cell \in BlockLetters
             THEN IF ~Block_init(cell) THEN [t1 EXCEPT !.err = TRUE, !.steps = t.steps]
                  ELSE LET new_dirs == Block_calculate_interaction(cell, dir, new) IN
                       [t1 EXCEPT !.queue = t1.queue \o
                            [k \in 1..Len(new_dirs) |-> <<new, new_dirs[k]>>]]
             ELSE [t1 EXCEPT !.queue = Append(t1.queue, <<new, dir>>)]

(***************************************************************************)
(* The three tracers behind one name.  Lazors.py and lazors1.py share the  *)
(* same trace_laser.                                                       *)
(***************************************************************************)
Tracers == {"lazors1", "lazors2", "lazors3"}

\* max_reflections=50, max_steps=100, max_steps=200
DefaultBudget(tracer) ==
    IF tracer = "lazors1" THEN 50 ELSE IF tracer = "lazors2" THEN 100 ELSE 200

TraceActive(tracer, t, budget) ==
    IF tracer = "lazors1" THEN trace_laser1_active(t, budget)
    ELSE IF tracer = "lazors2" THEN trace_laser2_active(t, budget)
    ELSE Lazor_trace_active(t, budget)

TraceStep(tracer, grid, t) ==
    IF tracer = "lazors1" THEN trace_laser1_step(grid, t)
    ELSE IF tracer = "lazors2" THEN trace_laser2_step(grid, t)
    ELSE Lazor_trace_step(grid, t)

\* the tracer run until its loop ends
RECURSIVE TraceRun(_, _, _, _)
TraceRun(tracer, grid, t, budget) ==
    IF TraceActive(tracer, t, budget)
    THEN TraceRun(tracer, grid, TraceStep(tracer, grid, t), budget)
    ELSE t

\* "return path"
Trace(tracer, grid, start_pos, start_dir, budget) ==
    TraceRun(tracer, grid, TraceInit(start_pos, start_dir), budget).path

(***************************************************************************)
(* Library iterators the solvers are built on                              *)
(***************************************************************************)
\* itertools.combinations(s, k): the k-subsequences of s, lexicographic by index
RECURSIVE combinations(_, _)
combinations(s, k) ==
    IF k = 0 THEN << <<>> >>
    ELSE IF Len(s) < k THEN <<>>
    ELSE LET with == combinations(Tail(s), k - 1)
         IN  [i \in 1..Len(with) |-> <<Head(s)>> \o with[i]]
             \o combinations(Tail(s), k)

\* itertools.permutations of the list of a A's, b B's, c C's: one tuple per
\* choice of the block that comes first, equal tuples repeated
RECURSIVE all_permutations(_, _, _)
all_permutations(a, b, c) ==
    IF a + b + c = 0 THEN << <<>> >>
    ELSE LET Pre(letter, rest) == [i \in 1..Len(rest) |-> <<letter>> \o rest[i]]
             Rep(m, s) == [i \in 1..(m * Len(s)) |-> s[((i - 1) % Len(s)) + 1]]
         IN  (IF a > 0 THEN Rep(a, Pre("A", all_permutations(a - 1, b, c))) ELSE <<>>)
             \o (IF b > 0 THEN Rep(b, Pre("B", all_permutations(a, b - 1, c))) ELSE <<>>)
             \o (IF c > 0 THEN Rep(c, Pre("C", all_permutations(a, b, c - 1))) ELSE <<>>)

\* sympy multiset_permutations of a A's, b B's, c C's: the distinct
\* permutations, in lexicographic order of the letters
RECURSIVE multiset_permutations(_, _, _)
multiset_permutations(a, b, c) ==
    IF a + b + c = 0 THEN << <<>> >>
    ELSE LET Pre(letter, rest) == [i \in 1..Len(rest) |-> <<letter>> \o rest[i]]
         IN  (IF a > 0 THEN Pre("A", multiset_permutations(a - 1, b, c)) ELSE <<>>)
             \o (IF b > 0 THEN Pre("B", multiset_permutations(a, b - 1, c)) ELSE <<>>)
             \o (IF c > 0 THEN Pre("C", multiset_permutations(a, b, c - 1)) ELSE <<>>)

\* set(itertools.permutations(block_types)): the tuples obtained by
\* rearranging the positions of block_types, as a set
permutations_set(block_types) ==
    LET k == Len(block_types)
        Bij == {f \in [1..k -> 1..k] : \A i, j \in 1..k : f[i] = f[j] => i = j}
    IN  {[i \in 1..k |-> block_types[f[i]]] : f \in Bij}

\* the orders in which a set can be iterated
IterationOrders(S) ==
    LET m == Cardinality(S)
    IN  {s \in [1..m -> S] : \A i, j \in 1..m : s[i] = s[j] => i = j}

\* itertools.product(xs, ys): xs outer, ys inner
product(xs, ys) ==
    [i \in 1..(Len(xs) * Len(ys)) |->
        <<xs[((i - 1) \div Len(ys)) + 1], ys[((i - 1) % Len(ys)) + 1]>>]

RECURSIVE factorial(_)
factorial(m) == IF m = 0 THEN 1 ELSE m * factorial(m - 1)

(***************************************************************************)
(* Solver helpers                                                          *)
(***************************************************************************)
Drafts == {"Lazors", "lazors1", "lazors2", "lazors3"}

\* solve_with_bruteforce (Lazors.py, lazors1.py) against solve_puzzle
Bruteforce(d) == d \in {"Lazors", "lazors1"}

TracerOf(d) == IF Bruteforce(d) THEN "lazors1" ELSE d

\* [(i, j) for i in range(len(grid)) for j in range(len(grid[0])) if grid[i][j] == 'o']
RECURSIVE CellsFrom(_, _, _)
CellsFrom(grid, i, j) ==
    IF i >= Len(grid) THEN <<>>
    ELSE IF j >= Len(grid[1]) THEN CellsFrom(grid, i + 1, 0)
    ELSE (IF grid[i + 1][j + 1] = "o" THEN << <<i, j>> >> ELSE <<>>)
         \o CellsFrom(grid, i, j + 1)

\* the cells that are not 'x': the fixed blocks are taken for free slots
open_slots(grid) ==
    LET w == Len(grid[1])
        all == [k \in 1..(Len(grid) * w) |-> <<(k - 1) \div w, (k - 1) % w>>]
    IN  SelectSeq(all, LAMBDA c : grid[c[1] + 1][c[2] + 1] # "x")

empty_slots(grid) == CellsFrom(grid, 0, 0)

\* lazors3.py: candidate_positions.append((2 * i + 1, 2 * j + 1))
\* the positions right of the block cells: (2 * i + 1, 2 * j + 2)
candidate_positions_on_lines(grid_origin) ==
    LET e == empty_slots(grid_origin)
    IN  [k \in 1..Len(e) |-> <<2 * e[k][1] + 1, 2 * e[k][2] + 2>>]

candidate_positions(grid_origin) ==
    LET e == empty_slots(grid_origin)
    IN  [k \in 1..Len(e) |-> <<2 * e[k][1] + 1, 2 * e[k][2] + 1>>]

\* the refract blocks left out of the count
total_blocks_without_C(blocks) == blocks.A + blocks.B

\* sum(blocks.values())
total_blocks(blocks) == blocks.A + blocks.B + blocks.C

\* ['A'] * blocks['A'] + ['B'] * blocks['B'] + ['C'] * blocks['C']
block_types(blocks) ==
    [i \in 1..blocks.A |-> "A"] \o [i \in 1..blocks.B |-> "B"]
        \o [i \in 1..blocks.C |-> "C"]

\* for (i, j), block in zip(slots, perm): temp_grid[i][j] = block
RECURSIVE Fill(_, _, _)
Fill(grid, slots, perm) ==
    IF slots = <<>> \/ perm = <<>> THEN grid
    ELSE Fill([grid EXCEPT ![Head(slots)[1] + 1][Head(slots)[2] + 1] = Head(perm)],
              Tail(slots), Tail(perm))

(* The heap of grid objects: objs[r] is the list of lists that reference r *)
(* points to.  copy.deepcopy allocates a new object.                       *)
\* "temp_grid = grid": a second name for the same object
alias(heap, ref) == [heap |-> heap, ref |-> ref]

deepcopy(heap, ref) == [heap |-> Append(heap, heap[ref]), ref |-> Len(heap) + 1]

(* Elements of all_hits.  A bare position (x, y) and a path entry          *)
(* ((x, y), step) are different Python tuples; step is -1 for a bare       *)
(* position.                                                               *)
Bare(pos) == [p |-> pos, step |-> -1]

\* the positions of the path entries, for every draft
HitsOfPositions(d, path) ==
    IF Bruteforce(d) THEN {Bare(path[i][1]) : i \in 1..Len(path)}
    ELSE {Bare(path[i]) : i \in 1..Len(path)}

\* what the solver of draft d adds to all_hits from a path
HitsOf(d, path) ==
    IF d = "Lazors" THEN {[p |-> path[i][1], step |-> path[i][2]] : i \in 1..Len(path)}
    ELSE IF d = "lazors1" THEN {Bare(path[i][1]) : i \in 1..Len(path)}
    ELSE {Bare(path[i]) : i \in 1..Len(path)}

\* any(p in all_hits for p in targets)
CoveredSome(points, hits) == \E i \in 1..Len(points) : Bare(points[i]) \in hits

\* all(p in all_hits for p in targets)
Covered(points, hits) == \A i \in 1..Len(points) : Bare(points[i]) \in hits

\* the order(s) in which the type-permutations are iterated
PermOrders(d, blocks) ==
    IF Bruteforce(d) THEN IterationOrders(permutations_set(block_types(blocks)))
    ELSE {multiset_permutations(blocks.A, blocks.B, blocks.C)}

(***************************************************************************)
(* Inputs                                                                  *)
(***************************************************************************)
MaxBlocks == 3
MaxLasers == 2
MaxTargets == 2
SmallCap == 2
SmallBudget == 3

\* data['grid'] as the loaders build it: equal-length rows of A, B, C, o, x
SolverGrids ==
    { << <<"o", "o", "o">> >>,
      << <<"o", "A", "o">> >>,
      << <<"x", "o", "B">> >>,
      << <<"o", "C">> >> }

\* block counts; at least one kind is absent
Inventories ==
    {b \in [A : 0..MaxBlocks, B : 0..MaxBlocks, C : 0..MaxBlocks] :
        /\ b.A + b.B + b.C <= MaxBlocks
        /\ (b.A = 0 \/ b.B = 0 \/ b.C = 0)}

LaserPool ==
    << << <<0, 1>>, <<1, 0>> >>,
       << <<4, 1>>, <<-1, 0>> >>,
       << <<2, 0>>, <<1, 1>> >> >>

PointPool == << <<0, 1>>, <<2, 1>>, <<4, 1>> >>

\* lasers of lazors3.py puzzles with a diagonal direction and an origin
\* (x, y) with x + y odd, in full-grid coordinates
OddDiagonalLasers ==
    { << << <<1, 0>>, <<1, 1>> >> >>,
      << << <<5, 2>>, <<-1, -1>> >>, << <<1, 0>>, <<1, 1>> >> >> }

\* the sequences of at most m distinct elements of pool
ListsOf(pool, m) ==
    LET Idx == UNION {[1..k -> 1..Len(pool)] : k \in 0..m}
    IN  {[i \in 1..Len(f) |-> pool[f[i]]] :
            f \in {g \in Idx : \A i, j \in 1..Len(g) : g[i] = g[j] => i = j}}

\* the same with the elements in the order of pool
SortedListsOf(pool, m) ==
    LET Idx == UNION {[1..k -> 1..Len(pool)] : k \in 0..m}
    IN  {[i \in 1..Len(f) |-> pool[f[i]]] :
            f \in {g \in Idx : \A i, j \in 1..Len(g) : i < j => g[i] < g[j]}}

\* max_attempts: a small cap, and the default of the signature
Caps == {SmallCap, 100000}

\* parse_bff_file of Lazors.py and lazors1.py raises ValueError when the file
\* defines no laser or no target point
LoaderAccepts(d, dat) ==
    Bruteforce(d) => (dat.lazors # <<>> /\ dat.points # <<>>)

(***************************************************************************)
(* State                                                                   *)
(***************************************************************************)
VARIABLES
    draft,        \* which file's solver runs
    data,         \* the puzzle as loaded: grid, blocks, lazors, points
    max_attempts,
    pc,           \* "start", "loop", "lasers", "check", "done", "verified"
    objs,         \* the heap of grid objects; objs[1] is data['grid']
    full_grid,    \* lazors3.py: reference of full_grid, else NoRef
    temp_grid,    \* reference of temp_grid / test_grid, NoRef before the loop
    attempt_iter, \* the items of itertools.product(...)
    n,            \* items taken from the iterator
    li,           \* lasers traced for the current candidate
    all_hits,
    valid,
    result,       \* reference of the returned grid, NoRef for None
    ntraced,      \* calls of the tracer made by the solver
    missed,       \* main program of Lazors.py / lazors1.py: missed points
    tracer,       \* TraceSpec: which tracer runs
    tgrid,        \* TraceSpec: its grid
    tbudget,      \* TraceSpec: max_reflections / max_steps
    tr,           \* TraceSpec: its locals
    call          \* CallSpec: one call of a function: fn, args, ret, done

solverVars == <<draft, data, max_attempts, pc, objs, full_grid, temp_grid,
                attempt_iter, n, li, all_hits, valid, result, ntraced, missed>>
tracerVars == <<tracer, tgrid, tbudget, tr>>
callVars == <<call>>
vars == <<solverVars, tracerVars, callVars>>

\* no function call is under way
CallIdle == call = [fn |-> None, args |-> <<>>, ret |-> <<>>, done |-> FALSE]

TracerIdle ==
    /\ tracer = None
    /\ tgrid = <<>>
    /\ tbudget = 0
    /\ tr = TraceInit(<<0, 0>>, <<0, 0>>)

SolverIdle ==
    /\ draft = None
    /\ data = [grid |-> <<>>, blocks |-> [A |-> 0, B |-> 0, C |-> 0],
               lazors |-> <<>>, points |-> <<>>]
    /\ max_attempts = 0
    /\ pc = "idle"
    /\ objs = <<>>
    /\ full_grid = NoRef
    /\ temp_grid = NoRef
    /\ attempt_iter = <<>>
    /\ n = 0
    /\ li = 0
    /\ all_hits = {}
    /\ valid = TRUE
    /\ result = NoRef
    /\ ntraced = 0
    /\ missed = <<>>

(***************************************************************************)
(* The solver: solve_with_bruteforce (Lazors.py, lazors1.py) and           *)
(* solve_puzzle (lazors2.py, lazors3.py)                                   *)
(***************************************************************************)
Init ==
    /\ draft \in Drafts
    /\ \/ data \in [grid : SolverGrids, blocks : Inventories,
                    lazors : ListsOf(LaserPool, MaxLasers),
                    points : SortedListsOf(PointPool, MaxTargets)]
       \/ /\ draft = "lazors3"
          /\ data \in [grid : SolverGrids, blocks : Inventories,
                       lazors : OddDiagonalLasers,
                       points : SortedListsOf(PointPool, MaxTargets)]
    /\ LoaderAccepts(draft, data)
    /\ max_attempts \in Caps
    /\ pc = "start"
    /\ objs = <<data.grid>>
    /\ full_grid = NoRef
    /\ temp_grid = NoRef
    /\ attempt_iter = <<>>
    /\ n = 0
    /\ li = 0
    /\ all_hits = {}
    /\ valid = TRUE
    /\ result = NoRef
    /\ ntraced = 0
    /\ missed = <<>>
    /\ TracerIdle
    /\ CallIdle

\* the slots the combinations are taken from
SlotsOf(d, grid) ==
    IF d = "lazors3" THEN candidate_positions(grid) ELSE empty_slots(grid)

\* the statements before the loop
Start ==
    /\ pc = "start"
    /\ LET grid == objs[1]
           k == total_blocks(data.blocks)
       IN  IF Bruteforce(draft) /\ (k = 0 \/ Len(empty_slots(grid)) < k)
           THEN /\ result' = NoRef
                /\ pc' = "done"
                /\ UNCHANGED <<objs, full_grid, attempt_iter>>
           ELSE /\ \E perms \in PermOrders(draft, data.blocks) :
                      attempt_iter' = product(combinations(SlotsOf(draft, grid), k), perms)
                /\ IF draft = "lazors3"
                   THEN /\ objs' = Append(objs, generate_full_grid(grid))
                        /\ full_grid' = Len(objs) + 1
                   ELSE UNCHANGED <<objs, full_grid>>
                /\ pc' = "loop"
                /\ UNCHANGED result
    /\ UNCHANGED <<draft, data, max_attempts, temp_grid, n, li, all_hits, valid,
                   ntraced, missed, tracerVars, callVars>>

\* "for slots, perm in progress": the next item, copied and filled, or the
\* end of the loop and "return None"
Loop ==
    /\ pc = "loop"
    /\ IF n < max_attempts /\ n < Len(attempt_iter)
       THEN LET item == attempt_iter[n + 1]
                cp == deepcopy(objs, IF draft = "lazors3" THEN full_grid ELSE 1)
            IN  /\ objs' = [cp.heap EXCEPT ![cp.ref] = Fill(@, item[1], item[2])]
                /\ temp_grid' = cp.ref
                /\ n' = n + 1
                /\ all_hits' = {}
                /\ valid' = TRUE
                /\ li' = 0
                /\ pc' = "lasers"
                /\ UNCHANGED result
       ELSE /\ result' = NoRef
            /\ pc' = "done"
            /\ UNCHANGED <<objs, temp_grid, n, all_hits, valid, li>>
    /\ UNCHANGED <<draft, data, max_attempts, full_grid, attempt_iter, ntraced,
                   missed, tracerVars, callVars>>

\* "for start, dir in lazors": one laser traced, or the end of the loop
Lasers ==
    /\ pc = "lasers"
    /\ IF li < Len(data.lazors)
       THEN LET lz == data.lazors[li + 1]
                t == TracerOf(draft)
                path == Trace(t, objs[temp_grid], lz[1], lz[2], DefaultBudget(t))
                hits == all_hits \cup HitsOf(draft, path)
            IN  /\ all_hits' = hits
                /\ ntraced' = ntraced + 1
                /\ IF draft # "lazors3" /\ ~Covered(data.points, hits)
                   THEN /\ valid' = FALSE
                        /\ pc' = "check"
                        /\ UNCHANGED li
                   ELSE /\ li' = li + 1
                        /\ UNCHANGED <<valid, pc>>
       ELSE /\ pc' = "check"
            /\ UNCHANGED <<all_hits, ntraced, valid, li>>
    /\ UNCHANGED <<draft, data, max_attempts, objs, full_grid, temp_grid,
                   attempt_iter, n, result, missed, tracerVars, callVars>>

\* "if valid:" / "if all(p in all_hits for p in targets):" and the return
Check ==
    /\ pc = "check"
    /\ IF (IF draft = "lazors3" THEN Covered(data.points, all_hits) ELSE valid)
       THEN /\ result' = temp_grid
            /\ pc' = "done"
       ELSE /\ pc' = "loop"
            /\ UNCHANGED result
    /\ UNCHANGED <<draft, data, max_attempts, objs, full_grid, temp_grid,
                   attempt_iter, n, li, all_hits, valid, ntraced, missed, tracerVars, callVars>>

\* the main program of Lazors.py / lazors1.py: "Verifying solution..."
Verify ==
    /\ pc = "done"
    /\ Bruteforce(draft)
    /\ result # NoRef
    /\ LET hits == UNION {HitsOf(draft, Trace("lazors1", objs[result],
                              data.lazors[i][1], data.lazors[i][2],
                              DefaultBudget("lazors1"))) : i \in 1..Len(data.lazors)}
       IN  missed' = SelectSeq(data.points, LAMBDA p : Bare(p) \notin hits)
    /\ pc' = "verified"
    /\ UNCHANGED <<draft, data, max_attempts, objs, full_grid, temp_grid,
                   attempt_iter, n, li, all_hits, valid, result, ntraced, tracerVars, callVars>>

Next == Start \/ Loop \/ Lasers \/ Check \/ Verify

Spec == Init /\ [][Next]_vars

(***************************************************************************)
(* One run of a tracer                                                     *)
(***************************************************************************)
Directions == {d \in {-1, 0, 1} \X {-1, 0, 1} : d # <<0, 0>>}

\* the cells of the small grids traced; "Z" is a character of a puzzle file
\* that is none of the five kinds (the loader of Lazors.py / lazors1.py
\* stores the characters of a grid row as they are)
TraceCells == {"o", "x", "A", "B", "C", "Z"}

TraceGrids ==
    {<< <<a, b>> >> : a, b \in TraceCells}
        \cup {<< <<a>>, <<b>> >> : a, b \in TraceCells}
        \cup {<< <<a, b>>, <<c, d>> >> : a, b, c, d \in {"A", "C"}}

\* the lattice points of the doubled coordinate system of a small grid
Lattice(grid) == (0..(2 * Len(grid[1]))) \X (0..(2 * Len(grid)))

\* a board of one row that a straight beam needs more than 200 steps to
\* cross, with a refract block in its second cell
CorridorCols == 101

Corridor == << [j \in 1..CorridorCols |-> IF j = 2 THEN "C" ELSE "o"] >>

\* grid, start position, start direction
TraceInputs ==
    UNION {{<<g, s, d>> : s \in Lattice(g), d \in Directions} : g \in TraceGrids}
        \cup {<<Corridor, <<1, 1>>, <<1, 0>> >>}

TraceStart ==
    /\ tracer \in Tracers
    /\ \E i \in TraceInputs :
         /\ tgrid = IF tracer = "lazors3" THEN generate_full_grid(i[1]) ELSE i[1]
         /\ tr = TraceInit(i[2], i[3])
    /\ tbudget \in {SmallBudget, DefaultBudget(tracer)}
    /\ SolverIdle
    /\ CallIdle

\* one iteration of the tracer's loop
TraceLoop ==
    /\ TraceActive(tracer, tr, tbudget)
    /\ tr' = TraceStep(tracer, tgrid, tr)
    /\ UNCHANGED <<tracer, tgrid, tbudget, solverVars, callVars>>

TraceNext == TraceLoop

TraceSpec == TraceStart /\ [][TraceNext]_vars

\* the interpreter keeps running the loop
TraceFairSpec == TraceSpec /\ WF_vars(TraceNext)

(***************************************************************************)
(* One call of a function that only computes a value                       *)
(***************************************************************************)
MaxCoord == 4

\* integer coordinates around the small boards
Coords == (-MaxCoord)..MaxCoord

\* (dx, dy), (0, 0) included
AllDirections == {-1, 0, 1} \X {-1, 0, 1}

CallRequests ==
    {[fn |-> "Block.calculate_interaction", args |-> <<t, d, <<x, y>> >>,
      ret |-> <<>>, done |-> FALSE] :
        t \in BlockLetters, d \in AllDirections, x \in Coords, y \in Coords}
    \cup {[fn |-> "calculate_interaction", args |-> <<t, d, <<x, y>> >>,
           ret |-> <<>>, done |-> FALSE] :
        t \in BlockLetters \cup {"o"}, d \in AllDirections, x \in Coords, y \in Coords}
    \cup {[fn |-> "get_block", args |-> <<g, <<x, y>> >>, ret |-> <<>>, done |-> FALSE] :
        g \in TraceGrids, x \in Coords, y \in Coords}
    \cup {[fn |-> "generate_full_grid", args |-> <<g>>, ret |-> <<>>, done |-> FALSE] :
        g \in TraceGrids}

CallStart ==
    /\ call \in CallRequests
    /\ SolverIdle
    /\ TracerIdle

\* the function returns v
Return(v) ==
    /\ call' = [call EXCEPT !.ret = v, !.done = TRUE]
    /\ UNCHANGED <<solverVars, tracerVars>>

CallBlockInteraction ==
    /\ call.fn = "Block.calculate_interaction"
    /\ ~call.done
    /\ Block_init(call.args[1])
    /\ Return(Block_calculate_interaction(call.args[1], call.args[2], call.args[3]))

CallInteraction ==
    /\ call.fn = "calculate_interaction"
    /\ ~call.done
    /\ Return(calculate_interaction(call.args[1], call.args[2], call.args[3]))

CallGetBlock ==
    /\ call.fn = "get_block"
    /\ ~call.done
    /\ Return(get_block(call.args[1], call.args[2]))

CallGenerateFullGrid ==
    /\ call.fn = "generate_full_grid"
    /\ ~call.done
    /\ Return(generate_full_grid(call.args[1]))

CallNext ==
    CallBlockInteraction \/ CallInteraction \/ CallGetBlock \/ CallGenerateFullGrid

CallSpec == CallStart /\ [][CallNext]_vars

(***************************************************************************)
(* Notions the properties are stated with                                  *)
(***************************************************************************)
Min(a, b) == IF a <= b THEN a ELSE b

\* the smallest element of a non-empty set of numbers
Least(S) == CHOOSE i \in S : \A j \in S : i <= j

InventorySize == data.blocks.A + data.blocks.B + data.blocks.C

\* the number of 'o' cells of the puzzle's grid
EmptyCount ==
    Cardinality({rc \in (1..Len(data.grid)) \X (1..Len(data.grid[1])) :
                    data.grid[rc[1]][rc[2]] = "o"})

\* the positions a tracer's path goes through
PathPositions(t, path) ==
    IF t = "lazors1" THEN {path[i][1] : i \in 1..Len(path)}
    ELSE SeqToSet(path)

\* the positions visited by all lasers of the puzzle on grid g, traced by
\* the tracer of the running draft
Visits(g) ==
    UNION {PathPositions(TracerOf(draft),
               Trace(TracerOf(draft), g, data.lazors[i][1], data.lazors[i][2],
                     DefaultBudget(TracerOf(draft)))) : i \in 1..Len(data.lazors)}

\* every target point is visited by some laser on grid g
TargetsVisited(g) == \A i \in 1..Len(data.points) : data.points[i] \in Visits(g)

\* the grid the candidates are copies of
BaseOf(d, grid) == IF d = "lazors3" THEN generate_full_grid(grid) ELSE grid

\* the candidate grids of the items of an iterator, in its order
CandidatesOf(iter) ==
    [i \in 1..Len(iter) |-> Fill(BaseOf(draft, data.grid), iter[i][1], iter[i][2])]

\* the references of the candidate grids built so far
CandidateRefs == ((IF draft = "lazors3" THEN 2 ELSE 1) + 1)..Len(objs)

Returned == pc \in {"done", "verified"}

\* C1: solve_puzzle of lazors3.py returns the first candidate, among the
\* first max_attempts candidates in enumeration order, on which every target
\* point is in the union of the traces of all lasers, and None iff there is
\* no such candidate.
C1_FirstCoveredCandidate ==
    (draft = "lazors3" /\ Returned) =>
        LET cands == CandidatesOf(product(
                         combinations(candidate_positions(data.grid), InventorySize),
                         multiset_permutations(data.blocks.A, data.blocks.B,
                                               data.blocks.C)))
            covered == {i \in 1..Min(max_attempts, Len(cands)) :
                           TargetsVisited(cands[i])}
        IN  IF covered = {} THEN result = NoRef
            ELSE result # NoRef /\ objs[result] = cands[Least(covered)]

\* a run of lazors3.py with two lasers that rejects a candidate and returns
\* a later one
C1_Witness ==
    /\ draft = "lazors3"
    /\ Returned
    /\ result # NoRef
    /\ n >= 2
    /\ Len(data.lazors) = 2
    /\ data.points # <<>>

\* C2: in lazors1.py and lazors2.py the per-laser rejection is a pure
\* optimisation: the result is the one of a solver that traces all lasers of
\* a candidate and tests the targets once against the union of the hits.
C2_EarlyRejectionIsOptimisation ==
    (draft \in {"lazors1", "lazors2"} /\ Returned /\ data.lazors # <<>>) =>
        LET cands == CandidatesOf(attempt_iter)
            covered == {i \in 1..Min(max_attempts, Len(cands)) :
                           TargetsVisited(cands[i])}
        IN  IF covered = {} THEN result = NoRef
            ELSE result # NoRef /\ objs[result] = cands[Least(covered)]

\* C3: a grid returned by a solver has every target point visited when all
\* lasers are traced on it again, and the verification of the main program
\* of Lazors.py / lazors1.py reports no missed point.
C3_ReturnedGridCovered ==
    (Returned /\ result # NoRef) =>
        /\ TargetsVisited(objs[result])
        /\ (pc = "verified" => missed = <<>>)

\* the value handed to the caller: the returned grid, <<>> for None
ResultGrid == IF result = NoRef THEN <<>> ELSE objs[result]

\* the hits the solver of the running draft collects from laser i on grid g
LaserHits(g, i) ==
    HitsOf(draft, Trace(TracerOf(draft), g, data.lazors[i][1], data.lazors[i][2],
                        DefaultBudget(TracerOf(draft))))

\* Lazors.py / lazors1.py / lazors2.py keep a candidate iff the targets are
\* in the hits collected after each laser
KeptByLaserLoop(g) ==
    \A j \in 1..Len(data.lazors) :
        Covered(data.points, UNION {LaserHits(g, i) : i \in 1..j})

\* what solve_with_bruteforce returns when its set of type-permutations is
\* iterated in the order perms
ResultUnder(perms) ==
    IF InventorySize = 0 \/ EmptyCount < InventorySize THEN <<>>
    ELSE LET cands == CandidatesOf(product(
                          combinations(empty_slots(data.grid), InventorySize), perms))
             kept == {i \in 1..Min(max_attempts, Len(cands)) : KeptByLaserLoop(cands[i])}
         IN  IF kept = {} THEN <<>> ELSE cands[Least(kept)]

\* C4: given identical input, solve_with_bruteforce (Lazors.py, lazors1.py)
\* evaluates the candidates in the same order and returns the same grid or
\* None on every run, that is whatever the iteration order of
\* set(itertools.permutations(block_types)) is.
C4_Deterministic ==
    (Bruteforce(draft) /\ Returned) =>
        \A perms \in PermOrders(draft, data.blocks) :
            /\ attempt_iter # <<>> =>
                 attempt_iter = product(combinations(empty_slots(data.grid),
                                                     InventorySize), perms)
            /\ ResultGrid = ResultUnder(perms)

Binomial(m, k) ==
    IF k > m THEN 0 ELSE factorial(m) \div (factorial(k) * factorial(m - k))

\* k! / (a! * b! * c!)
Multinomial ==
    factorial(InventorySize)
        \div (factorial(data.blocks.A) * factorial(data.blocks.B)
                 * factorial(data.blocks.C))

\* C(|slots|, k) * k! / (a! * b! * c!)
TotalCount == Binomial(EmptyCount, InventorySize) * Multinomial

Cells(g) == (1..Len(g)) \X (1..Len(g[1]))

CountOf(g, letter) == Cardinality({rc \in Cells(g) : g[rc[1]][rc[2]] = letter})

OCells(g) == {rc \in Cells(g) : g[rc[1]][rc[2]] = "o"}

\* the cells where grid g differs from grid b
Changed(b, g) == {rc \in Cells(b) : g[rc[1]][rc[2]] # b[rc[1]][rc[2]]}

\* the arrangements of the inventory into the 'o' cells of grid b
Arrangements(b) ==
    LET open == OCells(b)
        Fillings == {f \in [open -> {"o", "A", "B", "C"}] :
                        \A t \in BlockLetters :
                            Cardinality({rc \in open : f[rc] = t}) = data.blocks[t]}
    IN  {[r \in 1..Len(b) |-> [c \in 1..Len(b[1]) |->
             IF <<r, c>> \in open THEN f[<<r, c>>] ELSE b[r][c]]] : f \in Fillings}

\* the candidate grids evaluated so far, in order
Evaluated ==
    LET refs == CandidateRefs
    IN  [i \in 1..Cardinality(refs) |-> objs[Least(refs) + i - 1]]

\* s is the set of arrangements of the inventory, each exactly once, with
\* k!/(a!b!c!) assignments for each size-k combination of 'o' cells
EveryArrangementOnce(s) ==
    LET b == BaseOf(draft, data.grid)
    IN  /\ Len(s) = TotalCount
        /\ \A i, j \in 1..Len(s) : s[i] = s[j] => i = j
        /\ SeqToSet(s) = Arrangements(b)
        /\ \A S \in {T \in SUBSET OCells(b) : Cardinality(T) = InventorySize} :
               Cardinality({i \in 1..Len(s) : Changed(b, s[i]) = S}) = Multinomial

C6_CandidateShape ==
    LET b == BaseOf(draft, data.grid)
    IN  /\ \A r \in CandidateRefs :
               /\ Changed(b, objs[r]) \subseteq OCells(b)
               /\ \A t \in BlockLetters :
                      CountOf(objs[r], t) = CountOf(b, t) + data.blocks[t]
        /\ (/\ Returned
            /\ result # NoRef
            /\ data.blocks = [A |-> 0, B |-> 3, C |-> 0]
            /\ \A t \in BlockLetters : CountOf(data.grid, t) = 0)
               => CountOf(objs[result], "B") = 3

\* a solution returned for inventory B:3 on a grid without fixed blocks
C6_Witness ==
    /\ Returned
    /\ result # NoRef
    /\ data.blocks = [A |-> 0, B |-> 3, C |-> 0]
    /\ \A t \in BlockLetters : CountOf(data.grid, t) = 0
    /\ CountOf(objs[result], "B") = 3
    /\ data.lazors # <<>>
    /\ data.points # <<>>

\* C7: no step of a solver changes a grid object that exists already: the
\* base grid data['grid'] keeps the value it was loaded with, and filling a
\* candidate changes neither the base grid nor an earlier candidate.
C7_BaseGridUnmodified ==
    [][/\ data' = data
       /\ Len(objs') >= Len(objs)
       /\ \A r \in 1..Len(objs) : objs'[r] = objs[r]
       /\ objs'[1] = data.grid]_vars

\* a run that has filled two candidates and returned
C7_Witness ==
    /\ Returned
    /\ Len(Evaluated) >= 2
    /\ Evaluated[1] # Evaluated[2]
    /\ objs[1] = data.grid

\* C8: when the inventory has more blocks than the grid has 'o' cells, the
\* solver returns None, builds no candidate grid and traces no laser.
C8_TooManyBlocks ==
    (InventorySize > EmptyCount) =>
        /\ CandidateRefs = {}
        /\ ntraced = 0
        /\ temp_grid = NoRef
        /\ Returned => result = NoRef

\* a finished run of solve_puzzle with more blocks than 'o' cells
C8_Witness ==
    /\ InventorySize > EmptyCount
    /\ ~Bruteforce(draft)
    /\ Returned
    /\ data.lazors # <<>>

\* how a run without solution ended
Outcome ==
    IF result # NoRef THEN "solved"
    ELSE IF InventorySize > EmptyCount THEN "input_error"
    ELSE IF Bruteforce(draft) /\ InventorySize = 0 THEN "no_blocks"
    ELSE IF TotalCount > max_attempts THEN "cap_reached"
    ELSE "exhausted"

\* C9: the result handed to the caller tells the outcomes without solution
\* apart.  Complete exhaustion hands back None, so None is handed back by
\* no run that ended on an input error or on the attempt cap.
C9_ResultTellsOutcome ==
    (Returned /\ result = NoRef) => Outcome \notin {"input_error", "cap_reached"}

\* the tracer's loop has ended
TraceEnded == tracer # None /\ ~TraceActive(tracer, tr, tbudget)

\* C10: for every grid, start position and direction other than (0, 0) each
\* tracer terminates; a beam state already in the visited set is discarded,
\* which cuts closed reflective loops.
C10_TracerTerminates == <>TraceEnded

\* trace_laser of lazors1.py between two reflective blocks: the beam state
\* ((1, 1), (1, 0)) comes back, is discarded, and the trace ends with an
\* empty queue
C10_Witness ==
    /\ TraceEnded
    /\ tracer = "lazors1"
    /\ tbudget = DefaultBudget("lazors1")
    /\ tgrid = << <<"A", "A">> >>
    /\ tr.visited = {<< <<1, 1>>, <<1, 0>> >>, << <<1, 1>>, <<-1, 0>> >>}
    /\ tr.queue = <<>>

(***************************************************************************)
(* Properties of one tracer run                                            *)
(***************************************************************************)
\* the run has the budget of the signature
DefaultRun == tracer # None /\ tbudget = DefaultBudget(tracer)

\* the positions of the returned path
Hits == PathPositions(tracer, tr.path)

\* the loop ended on its budget while beam states were still queued
TraceOverflow == TraceEnded /\ tr.queue # <<>> /\ ~tr.brk /\ ~tr.inner

\* C11: a trace that stops on its step budget (50, 100, 200) while beam
\* states are still queued reports an overflow condition: it does not end by
\* returning the truncated path the way a complete trace returns its path.
C11_OverflowReported == (DefaultRun /\ TraceOverflow) => tr.err

\* position p is a cell of the full grid g
InFull(g, p) == 0 <= p[1] /\ p[1] < Len(g[1]) /\ 0 <= p[2] /\ p[2] < Len(g)

\* the content of the full grid at position (x, y)
FullCell(g, p) == g[p[2] + 1][p[1] + 1]

\* C12: in Lazor.trace, when the next position of a beam is an opaque block
\* cell, that position is in the returned path; tracing (1, 0) from (1, 1)
\* with 'B' at (3, 1) returns the hit-set {(1,1), (2,1), (3,1)}.
C12_OpaqueCollisionRecorded ==
    (tracer = "lazors3" /\ DefaultRun /\ TraceEnded /\ tr.queue = <<>>) =>
        /\ \A st \in tr.visited :
             LET new == Move(st[1], st[2])
             IN  (InFull(tgrid, new) /\ FullCell(tgrid, new) = "B") => new \in Hits
        /\ (/\ tgrid = generate_full_grid(<< <<"o", "B">> >>)
            /\ tr.start = << <<1, 1>>, <<1, 0>> >>)
               => Hits = {<<1, 1>>, <<2, 1>>, <<3, 1>>}

\* C13: a trace of Lazor.trace that starts at a position whose own cell is
\* an opaque block returns exactly [start].
C13_StartOnOpaqueStops ==
    (/\ tracer = "lazors3"
     /\ DefaultRun
     /\ TraceEnded
     /\ FullCell(tgrid, tr.start[1]) = "B")
        => tr.path = <<tr.start[1]>>

\* the straight walk from pos in direction dir (not (0, 0)) over the full
\* grid g up to the first block: whether that block is refractive, the
\* positions walked, and the block's position
RECURSIVE FirstRefraction(_, _, _, _)
FirstRefraction(g, pos, dir, pre) ==
    LET new == Move(pos, dir)
        walked == pre \cup {pos}
    IN  IF ~InFull(g, new) THEN [found |-> FALSE, pre |-> walked, p |-> new]
        ELSE IF FullCell(g, new) = "C" THEN [found |-> TRUE, pre |-> walked, p |-> new]
        ELSE IF FullCell(g, new) \in {"A", "B"}
        THEN [found |-> FALSE, pre |-> walked, p |-> new]
        ELSE FirstRefraction(g, new, dir, walked)

\* C16: in Lazor.trace with the default budget, when the beam first collides
\* with a refractive block at p, the hit-set of the trace is the positions
\* before the collision united with the hit-sets of the traces from p in the
\* two resulting directions, each run on its own.
C16_RefractionUnion ==
    (tracer = "lazors3" /\ DefaultRun /\ TraceEnded) =>
        LET f == FirstRefraction(tgrid, tr.start[1], tr.start[2], {})
            ds == Block_calculate_interaction("C", tr.start[2], f.p)
            Alone(d) == SeqToSet(Trace("lazors3", tgrid, f.p, d, DefaultBudget("lazors3")))
        IN  f.found => Hits = f.pre \cup Alone(ds[1]) \cup Alone(ds[2])

\* the positions start + k * dir, k >= 0, inside 0 <= x <= 2*cols,
\* 0 <= y <= 2*rows of the board g
ClosedRay(g, start) ==
    LET span == 2 * (Len(g) + Len(g[1]))
    IN  {p \in Lattice(g) :
            \E k \in 0..span : p = <<start[1][1] + k * start[2][1],
                                     start[1][2] + k * start[2][2]>>}

\* no cell of board g holds a block
NoBlocks(g) == \A r \in 1..Len(g), c \in 1..Len(g[1]) : g[r][c] \in {"o", "x"}

\* C19: in trace_laser (Lazors.py, lazors1.py, lazors2.py) the positions with
\* 0 <= x <= 2*cols and 0 <= y <= 2*rows are inside the board: on a board
\* without blocks every such position on the beam's ray is in the path.
C19_ClosedBoardRange ==
    (/\ tracer \in {"lazors1", "lazors2"}
     /\ DefaultRun
     /\ TraceEnded
     /\ NoBlocks(tgrid))
        => ClosedRay(tgrid, tr.start) \subseteq Hits

\* the content the tracer reads at a position of its path
CellRead(p) ==
    IF tracer = "lazors3" THEN FullCell(tgrid, p) ELSE get_block(tgrid, p)

\* C20: when a beam of Lazor.trace or trace_laser (lazors1.py) reaches a
\* position whose cell is none of A, B, C, o, x, the trace ends with an
\* error; the beam does not go on through the cell.
C20_UnknownCellFails ==
    (/\ tracer \in {"lazors1", "lazors3"}
     /\ \E p \in Hits : CellRead(p) \notin {"A", "B", "C", "o", "x", None})
        => tr.err

(***************************************************************************)
(* Properties of one function call                                         *)
(***************************************************************************)
\* the call of function fn has returned
Called(fn) == call.fn = fn /\ call.done

\* the interaction table: the surface is given by the parity of x
InteractionTable(type, dx, dy, x) ==
    IF type = "A" THEN (IF x % 2 = 0 THEN << <<-dx, dy>> >> ELSE << <<dx, -dy>> >>)
    ELSE IF type = "B" THEN <<>>
    ELSE IF x % 2 = 0 THEN << <<dx, dy>>, <<-dx, dy>> >>
    ELSE << <<dx, dy>>, <<dx, -dy>> >>

\* C14: Block.calculate_interaction (lazors2.py, lazors3.py) returns, for
\* every direction and integer collision point, the entry of the interaction
\* table: A reflects (-dx, dy) on even x and (dx, -dy) on odd x, B returns
\* nothing, C transmits and reflects the same way.
C14_InteractionTable ==
    Called("Block.calculate_interaction") =>
        call.ret = InteractionTable(call.args[1], call.args[2][1], call.args[2][2],
                                    call.args[3][1])

\* a refract block hit at an odd, negative x with a diagonal beam
C14_Witness ==
    /\ Called("Block.calculate_interaction")
    /\ call.args = <<"C", <<1, -1>>, <<-3, 2>> >>
    /\ call.ret = << <<1, -1>>, <<1, 1>> >>

\* C15: in calculate_interaction of Lazors.py / lazors1.py the parity of x
\* alone decides the result: a collision point with the same x and any other
\* y gives the same list of directions.
C15_OnlyXParity ==
    Called("calculate_interaction") =>
        \A y \in Coords :
            calculate_interaction(call.args[1], call.args[2], <<call.args[3][1], y>>)
                = call.ret

\* C17: get_block returns the content of cell ((y-1)/2, (x-1)/2) for a
\* coordinate with x and y odd inside the board, and None for a coordinate
\* with an even component or outside the board.
C17_GetBlockCellLookup ==
    Called("get_block") =>
        LET g == call.args[1]
            x == call.args[2][1]
            y == call.args[2][2]
        IN  call.ret =
               IF /\ x % 2 = 1 /\ y % 2 = 1
                  /\ 0 < x /\ x < 2 * Len(g[1])
                  /\ 0 < y /\ y < 2 * Len(g)
               THEN g[((y - 1) \div 2) + 1][((x - 1) \div 2) + 1]
               ELSE None

\* C18: generate_full_grid expands an r x c grid into a (2r+1) x (2c+1) grid
\* with full[2i+1][2j+1] = grid[i][j] and 'x' wherever the row index or the
\* column index is even.  The function builds new rows and only reads its
\* argument; that data['grid'] keeps its value across the call made by
\* solve_puzzle is part of C7_BaseGridUnmodified.
C18_FullGridShape ==
    Called("generate_full_grid") =>
        LET g == call.args[1]
            full == call.ret
            rows == Len(g)
            cols == Len(g[1])
        IN  /\ Len(full) = 2 * rows + 1
            /\ \A i \in 0..(2 * rows) : Len(full[i + 1]) = 2 * cols + 1
            /\ \A i \in 0..(rows - 1), j \in 0..(cols - 1) :
                   full[2 * i + 2][2 * j + 2] = g[i + 1][j + 1]
            /\ \A i \in 0..(2 * rows), j \in 0..(2 * cols) :
                   (i % 2 = 0 \/ j % 2 = 0) => full[i + 1][j + 1] = "x"

\* the expansion of a 2 x 2 board of blocks
C18_Witness ==
    /\ Called("generate_full_grid")
    /\ call.args = << << <<"A", "C">>, <<"C", "A">> >> >>
    /\ Len(call.ret) = 5
    /\ call.ret[4][2] = "C"
    /\ call.ret[4][4] = "A"

(***************************************************************************)
(* Properties of the branches of a trace                                   *)
(***************************************************************************)
\* C21: in trace_laser of lazors2.py an opaque block ends only the branch
\* that hit it: the beam states queued at that moment are still popped, so a
\* run that did not use up its budget ends with an empty queue.
C21_AbsorptionEndsOneBranch ==
    (tracer = "lazors2" /\ DefaultRun /\ TraceEnded /\ tr.steps < tbudget)
        => tr.queue = <<>>

\* the step relation of beam states on the full grid g: a free step keeps
\* the direction, a block at the next position gives the interaction's
\* directions at that position, a next position off the grid gives nothing
Successors(g, st) ==
    LET new == Move(st[1], st[2])
    IN  IF ~InFull(g, new) THEN {}
        ELSE IF FullCell(g, new) \in BlockLetters
        THEN LET ds == Block_calculate_interaction(FullCell(g, new), st[2], new)
             IN  {<<new, ds[k]>> : k \in 1..Len(ds)}
        ELSE {<<new, st[2]>>}

\* the beam states reachable from the states S
RECURSIVE Closure(_, _)
Closure(g, S) ==
    LET T == S \cup UNION {Successors(g, st) : st \in S}
    IN  IF T = S THEN S ELSE Closure(g, T)

\* the beam states reachable from (start, direction) of the running trace
Reachable == Closure(tgrid, {tr.start})

C23_EmptyInventoryOneCandidate ==
    (Bruteforce(draft) /\ InventorySize = 0 /\ Returned) =>
        /\ Len(Evaluated) = 1
        /\ Evaluated[1] = data.grid
        /\ ntraced >= 1
        /\ (result # NoRef) <=> TargetsVisited(data.grid)

\* C24: solve_with_bruteforce of Lazors.py returns None for every puzzle
\* (as loaded: at least one laser) with at least one target point, whatever
\* the grid, the inventory and the lasers: all_hits holds (position, step)
\* pairs and the targets are bare positions.
C24_LazorsNeverSolves ==
    (draft = "Lazors" /\ Returned /\ data.points # <<>>) => result = NoRef

\* a run of Lazors.py that evaluated a candidate on which the lasers visit
\* every target point, with hits collected, and returned None
C24_Witness ==
    /\ draft = "Lazors"
    /\ Returned
    /\ result = NoRef
    /\ data.points # <<>>
    /\ all_hits # {}
    /\ \E i \in 1..Len(Evaluated) : TargetsVisited(Evaluated[i])
    /\ \A i \in 1..Len(data.points) :
           \E h \in all_hits : h.p = data.points[i] /\ h.step >= 0

\* a laser with a diagonal direction whose origin (x, y) has x + y odd
OddDiagonal(lz) ==
    /\ lz[2][1] \in {-1, 1}
    /\ lz[2][2] \in {-1, 1}
    /\ (lz[1][1] + lz[1][2]) % 2 = 1

\* the puzzle is made of such lasers only
OnlyOddDiagonals ==
    /\ data.lazors # <<>>
    /\ \A i \in 1..Len(data.lazors) : OddDiagonal(data.lazors[i])

\* the path of Lazor.trace on the full grid g with the default budget
Path3(g, s, d) == Trace("lazors3", g, s, d, DefaultBudget("lazors3"))

\* the hits of all lasers of the puzzle on the unfilled full grid
BaseHits ==
    UNION {HitsOf("lazors3", Path3(objs[full_grid], data.lazors[i][1], data.lazors[i][2])) :
              i \in 1..Len(data.lazors)}

\* C25: in lazors3.py a diagonal laser whose origin has x + y odd visits
\* only positions with x + y odd and meets no block, so its path on every
\* candidate is its path on the unfilled full grid; for a puzzle made of
\* such lasers only the coverage test gives the same verdict for every
\* candidate, and a returned grid is the first candidate.
C25_OddDiagonalMeetsNoBlock ==
    /\ (draft = "lazors3" /\ pc = "check") =>
          /\ \A x \in 0..(Len(objs[temp_grid][1]) - 1), y \in 0..(Len(objs[temp_grid]) - 1) :
               \A d \in {-1, 1} \X {-1, 1} :
                  (x + y) % 2 = 1 =>
                     LET path == Path3(objs[temp_grid], <<x, y>>, d)
                     IN  /\ \A i \in 1..Len(path) : (path[i][1] + path[i][2]) % 2 = 1
                         /\ path = Path3(objs[full_grid], <<x, y>>, d)
          /\ OnlyOddDiagonals =>
               /\ all_hits = BaseHits
               /\ Covered(data.points, all_hits) = Covered(data.points, BaseHits)
    /\ (draft = "lazors3" /\ Returned /\ OnlyOddDiagonals /\ result # NoRef) => n = 1

\* the second candidate of a puzzle of two such lasers is being tested: it
\* holds a block the first did not, and gets the verdict of the first
C25_Witness ==
    /\ draft = "lazors3"
    /\ pc = "check"
    /\ OnlyOddDiagonals
    /\ Len(data.lazors) = 2
    /\ data.points # <<>>
    /\ n = 2
    /\ objs[temp_grid] # objs[full_grid]
    /\ all_hits # {}
    /\ ~Covered(data.points, all_hits)

\* the state Lazor.trace pops next and the position it looks at
Popped == Head(tr.queue)

Looked == Move(Popped[1], Popped[2])

\* the next loop iteration of Lazor.trace hands a collision to Block.interact
Collides ==
    /\ tracer = "lazors3"
    /\ TraceActive(tracer, tr, tbudget)
    /\ Popped \notin tr.visited
    /\ InFull(tgrid, Looked)
    /\ FullCell(tgrid, Looked) \in BlockLetters

\* the states queued by an interaction at p of a block of the given type
\* with a beam of direction d, as read at a point with x odd
OddResults(type, p, d) ==
    IF type = "A" THEN << <<p, <<d[1], -d[2]>> >> >>
    ELSE IF type = "B" THEN <<>>
    ELSE << <<p, d>>, <<p, <<d[1], -d[2]>> >> >>

\* C26: in every run of Lazor.trace on a full grid of generate_full_grid
\* (with blocks in its block cells) each collision point handed to
\* Block.interact has both coordinates odd, and the iteration queues exactly
\* the x-odd results at that point: (dx, -dy) for a reflective block,
\* (dx, dy) and (dx, -dy) for a refractive block, nothing for an opaque one.
C26_CollisionsAtOddPoints ==
    [][Collides =>
          /\ Looked[1] % 2 = 1
          /\ Looked[2] % 2 = 1
          /\ tr'.queue = Tail(tr.queue) \o
                OddResults(FullCell(tgrid, Looked), Looked, Popped[2])]_vars

\* a finished trace in which a diagonal beam met a reflective block and a
\* refractive block, and only the (dx, -dy) reflections were followed
C26_Witness ==
    /\ tracer = "lazors3"
    /\ TraceEnded
    /\ \E st \in tr.visited :
          LET p == Move(st[1], st[2]) IN
          /\ st[2][1] # 0 /\ st[2][2] # 0
          /\ InFull(tgrid, p) /\ FullCell(tgrid, p) = "A"
          /\ p[1] % 2 = 1 /\ p[2] % 2 = 1
          /\ <<p, <<st[2][1], -st[2][2]>> >> \in tr.visited
          /\ <<p, <<-st[2][1], st[2][2]>> >> \notin tr.visited
    /\ \E st \in tr.visited :
          LET p == Move(st[1], st[2]) IN
          /\ st[2][1] # 0 /\ st[2][2] # 0
          /\ InFull(tgrid, p) /\ FullCell(tgrid, p) = "C"
          /\ <<p, st[2]>> \in tr.visited
          /\ <<p, <<st[2][1], -st[2][2]>> >> \in tr.visited
          /\ <<p, <<-st[2][1], st[2][2]>> >> \notin tr.visited

====
